---- MODULE Spec2Model ----
(***************************************************************************)
(* Model of bsfit's fitting module (src/src/nodes/utils.py): the parameter *)
(* index map, the Bayesian lookup table (posterior, MAP readout, percept   *)
(* likelihood), the objective get_logl and the fit driver fit_maxlogl.     *)
(*                                                                         *)
(* Numbers.  The code computes with floats; the model computes the same    *)
(* quantities exactly, as integer numerators over a denominator that is    *)
(* carried beside them.  NaN is the value NaN below.  The circular space   *)
(* 1..360 of the code is the space 1..SpaceSize here.                      *)
(*                                                                         *)
(* Specifications.  SpecLocate: locate_fit_params and unpack.  SpecChoose: *)
(* choose_percept.  SpecLookup: get_bayes_lookup.  SpecLogl: get_logl;     *)
(* SpecLoglMissing: get_logl on data with a missing stimulus noise.        *)
(* SpecVonMises: VonMises.get.  Spec: fit_maxlogl, with fmin calling       *)
(* get_logl; SpecFair: Spec with the fairness of fmin's loop.  The         *)
(* variables of the calls a specification does not make stay unset.        *)
(***************************************************************************)
EXTENDS Integers, Sequences, FiniteSets, TLC

\* ------------------------------------------------------------------ bounds
\* size of the circular space (360 in the code)
SpaceSize == 3
\* parameter dictionaries given to locate_fit_params: groups, and list length
MaxGroups == 3
MaxGroupLen == 2

\* Python's None: what a variable holds before the code has set it
None == "none"

\* what fit and fit_out hold before fmin is entered and before fit_maxlogl
\* ends: a dictionary without entries
Unset == [set |-> FALSE]

\* --------------------------------------------------------------- variables
VARIABLES
    pc,          \* position of the call under study
    lp_params,   \* locate_fit_params / unpack: the dictionary given
    params_loc,  \* locate_fit_params: the dictionary returned
    flat,        \* unpack: the flat list returned
    cp_readout,  \* choose_percept: readout
    cp_posterior,\* choose_percept: posterior (rows: stimulus space, columns: m_i)
    cp_out,      \* choose_percept: what it returns or raises
    bl_args,     \* get_bayes_lookup: its arguments
    bl_out,      \* get_bayes_lookup: what it returns or raises, with the
                 \* local arrays of get_percept_likelihood
    lg_args,     \* get_logl: fit_p, params and stim_mean
    lg_estimate, \* get_logl: the caller's Series given as estimate
    lg_out,      \* get_logl: what it returns or raises, with its local arrays
    database,    \* fit_maxlogl: the caller's DataFrame
    fit_args,    \* fit_maxlogl: prior_shape, prior_mode, readout
    copy_on_write, \* whether pandas runs in copy-on-write mode
    fit,         \* fit_maxlogl: params, data and the state of fmin
    fit_out,     \* fit_maxlogl: what it returns or raises
    vm_args,     \* VonMises.get: v_x, v_u and v_k
    vm_out       \* VonMises.get: the matrix returned

locVars == <<lp_params, params_loc, flat>>
chooseVars == <<cp_readout, cp_posterior, cp_out>>
lookupVars == <<bl_args, bl_out>>
loglVars == <<lg_args, lg_estimate, lg_out>>
fitVars == <<database, fit_args, copy_on_write, fit, fit_out>>
vmVars == <<vm_args, vm_out>>
vars == <<pc, locVars, chooseVars, lookupVars, loglVars, fitVars, vmVars>>

LocIdle == lp_params = None /\ params_loc = None /\ flat = None
ChooseIdle == cp_readout = None /\ cp_posterior = None /\ cp_out = None
LookupIdle == bl_args = None /\ bl_out = None
LoglIdle == lg_args = None /\ lg_estimate = None /\ lg_out = None
VmIdle == vm_args = None /\ vm_out = None
FitIdle ==
    /\ database = None /\ fit_args = None /\ copy_on_write = None
    /\ fit = Unset /\ fit_out = Unset

\* ----------------------------------------------------------------- helpers
\* np.nan; every number of the model is >= 0, so -1 is free to stand for it
NaN == -1

isnan(x) == x = NaN

Range(s) == {s[i] : i \in DOMAIN s}

Max(a, b) == IF a >= b THEN a ELSE b

RECURSIVE MaxSeq(_)
MaxSeq(s) == IF Len(s) = 1 THEN s[1] ELSE Max(s[1], MaxSeq(Tail(s)))

RECURSIVE Pow(_, _)
Pow(b, e) == IF e = 0 THEN 1 ELSE b * Pow(b, e - 1)

RECURSIVE Gcd(_, _)
Gcd(a, b) == IF b = 0 THEN a ELSE Gcd(b, a % b)

Lcm(a, b) == (a \div Gcd(a, b)) * b

RECURSIVE LcmUpTo(_)
LcmUpTo(n) == IF n <= 1 THEN 1 ELSE Lcm(n, LcmUpTo(n - 1))

\* the elements of a set of integers, ascending
RECURSIVE SortedSeq(_)
SortedSeq(S) ==
    IF S = {} THEN <<>>
    ELSE LET m == CHOOSE x \in S : \A y \in S : x <= y
         IN  <<m>> \o SortedSeq(S \ {m})

\* The sequence s and the matrix A themselves (a matrix is the sequence of
\* its rows), as tuples: TLC then computes each element once, not at each use.
Tuple(s) == s \o <<>>
Grid(A) == [r \in 1..Len(A) |-> A[r] \o <<>>] \o <<>>

\* column c of a matrix
Col(M, c) == [r \in 1..Len(M) |-> M[r][c]] \o <<>>

RECURSIVE SumSeq(_)
SumSeq(s) == IF s = <<>> THEN 0 ELSE Head(s) + SumSeq(Tail(s))

\* the sum of column j of a matrix
ColSum(M, j) == SumSeq(Col(M, j))

RECURSIVE Concat(_)
Concat(ss) == IF ss = <<>> THEN <<>> ELSE Head(ss) \o Concat(Tail(ss))

\* ------------------------------------------------ unpack, locate_fit_params
\* A Python dict is the sequence of its items in insertion order:
\* <<[key |-> name, val |-> list], ...>>, the keys distinct.
GroupNames == <<"k_llh", "k_prior", "k_card", "prior_tail", "p_rand", "k_m">>

flatten(x) == Concat(x)

unpack(my_dict) == flatten([i \in 1..Len(my_dict) |-> my_dict[i].val])

\* (mutant) loc is set back to -1 at every parameter type
LocateRestartingFrom(params, i, loc) ==
    [g \in 1..Len(params) |->
        [key |-> params[g].key,
         val |-> [j \in 1..Len(params[g].val) |-> j - 1]]]

\* the loop over parameter types, from group i on, loc being the last index
\* given out so far
RECURSIVE LocateFrom(_, _, _)
LocateFrom(params, i, loc) ==
    IF i > Len(params) THEN <<>>
    ELSE LET n == Len(params[i].val)
         IN  <<[key |-> params[i].key, val |-> [j \in 1..n |-> loc + j]]>>
             \o LocateFrom(params, i + 1, loc + n)

locate_fit_params(params) == LocateFrom(params, 1, -1)

\* (mutant) params_loc is the caller's dictionary itself: every list of it
\* is emptied before it is read
EmptiedByLocate(params) ==
    [g \in 1..Len(params) |-> [key |-> params[g].key, val |-> <<>>]]

\* the caller's dictionary after locate_fit_params(params): params_loc is
\* params.copy(), so binding its keys to new lists leaves the caller's
\* dictionary, and the lists it holds, as they were
LeftByLocate(params) == params

\* the value of group `key` in a dict
RECURSIVE GetFrom(_, _, _)
GetFrom(d, key, i) ==
    IF i > Len(d) THEN <<>>
    ELSE IF d[i].key = key THEN d[i].val ELSE GetFrom(d, key, i + 1)

Get(d, key) == GetFrom(d, key, 1)

\* ---------------------------------------------------------------- VonMises
\* The circular space and the stimulus / measurement / percept spaces
\* np.arange(1, 361, 1).
Space == [i \in 1..SpaceSize |-> i]

\* Concentrations.  0 is the flat density; 1 .. KBig-1 are peaked densities
\* that are positive everywhere; from KBig on the density is so sharp that
\* it is 0 in floating point everywhere but at its mode; KInf is np.inf.
KBig == 2
KInf == 3

HalfSpace == SpaceSize \div 2

CircDist(a, b) ==
    LET d == (a - b) % SpaceSize
    IN  IF d > SpaceSize - d THEN SpaceSize - d ELSE d

\* the unnormalised density at circular distance d of the mode
VonMisesWeight(d, k) ==
    IF k = 0 THEN 1
    ELSE IF k >= KBig THEN (IF d = 0 THEN 1 ELSE 0)
    ELSE Pow(k + 1, HalfSpace - d)

VonMisesNum(v_x, v_u, k) ==
    Grid([i \in 1..Len(v_x) |-> [j \in 1..Len(v_u) |->
            VonMisesWeight(CircDist(v_x[i], v_u[j]), k)]])

VonMisesOf(num) == [num |-> num, den |-> Tuple([j \in 1..Len(num[1]) |-> ColSum(num, j)])]

\* VonMises(p=True).get(v_x, v_u, [k]): rows are the points v_x, columns the
\* locations v_u; the density of entry (i, j) is num[i][j] / den[j], den[j]
\* being the sum of column j, so that every column sums to 1.
VonMisesGet(v_x, v_u, k) == VonMisesOf(VonMisesNum(v_x, v_u, k))

\* (mutant) the first concentration only
VonMisesFirstOnly(v_x, v_u, v_k) == VonMisesGet(v_x, v_u, v_k[1])

\* VonMises(p=True).get(v_x, v_u, v_k): one column per combination of a
\* location of v_u and a concentration of v_k, here the columns of the
\* first concentration, then those of the second, and so on (no caller
\* relies on the order: get_bayes_lookup passes a single concentration)
RECURSIVE VonMisesGetAll(_, _, _)
VonMisesGetAll(v_x, v_u, v_k) ==
    IF Len(v_k) = 1 THEN VonMisesGet(v_x, v_u, v_k[1])
    ELSE [num |-> Grid([i \in 1..Len(v_x) |->
                     VonMisesGet(v_x, v_u, v_k[1]).num[i]
                         \o VonMisesGetAll(v_x, v_u, Tail(v_k)).num[i]]),
          den |-> VonMisesGet(v_x, v_u, v_k[1]).den
                     \o VonMisesGetAll(v_x, v_u, Tail(v_k)).den]

\* ------------------------------------------------------- get_learnt_prior
LearntPriorOf(learnt_prior, n) ==
    [err |-> None,
     num |-> Grid([s \in 1..Len(learnt_prior.num) |-> [m \in 1..n |-> learnt_prior.num[s][1]]]),
     den |-> Tuple([m \in 1..n |-> learnt_prior.den[1]])]

\* the prior density repeated across the columns (one per measurement)
get_learnt_prior(percept_space, prior_mode, k_prior, prior_shape, stim_mean_space) ==
    IF prior_shape = "vonMisesPrior"
    THEN LearntPriorOf(VonMisesGet(stim_mean_space, prior_mode, k_prior), Len(percept_space))
    ELSE [err |-> "UnboundLocalError", num |-> None, den |-> None]

\* ----------------------------------------------------- do_bayes_inference
\* np.round(posterior, 6): posteriors are kept in units of 1e-6
Precision == 1000000

\* np.round: n / d rounded to the nearest integer, halves to the even one
RoundHalfEven(n, d) ==
    LET q == n \div d
        r == n % d
    IN  IF 2 * r > d THEN q + 1
        ELSE IF 2 * r = d THEN q + (q % 2)
        ELSE q

NormalisedRounded(prod, tot) ==
    IF tot = 0 THEN [s \in 1..Len(prod) |-> NaN]
    ELSE [s \in 1..Len(prod) |-> RoundHalfEven(prod[s] * Precision, tot)]

ColumnOf(prod) == NormalisedRounded(prod, SumSeq(prod))

\* column m of llh * learnt_prior, normalised to sum to 1, then rounded; the
\* densities' own denominators cancel in the normalisation.  A column whose
\* products are all 0 is 0 / 0 = NaN.
PosteriorColumn(llh, learnt_prior, m) ==
    ColumnOf(Tuple([s \in 1..Len(llh) |-> llh[s][m] * learnt_prior[s][m]]))

\* the matrix whose columns are given
FromColumns(cols) == Grid([s \in 1..Len(cols[1]) |-> [m \in 1..Len(cols) |-> cols[m][s]]])

\* the closed-form branch, taken when some column of the posterior is NaN
ClosedForm(k_llh, k_prior, posterior) ==
    IF \A m \in 1..Len(posterior[1]) : ~isnan(posterior[1][m])
    THEN [err |-> None, val |-> posterior]
    ELSE IF ~(k_llh = KInf /\ k_prior = KInf)
    THEN [err |-> "Exception: Check k_prior or k_llh", val |-> None]
    ELSE IF k_llh = KInf \/ k_prior = KInf
    THEN [err |-> "Exception: not yet solved when k is +inf", val |-> None]
    ELSE [err |-> "UnboundLocalError: kpo", val |-> None]

do_bayes_inference(k_llh, prior_mode, k_prior, stim_mean_space, llh, learnt_prior) ==
    ClosedForm(k_llh, k_prior,
        FromColumns(Grid([m \in 1..Len(llh[1]) |-> PosteriorColumn(llh, learnt_prior, m)])))

\* --------------------------------------------------------- choose_percept
\* np.max of a column: NaN as soon as an entry is NaN
ColMax(col) == IF \E i \in DOMAIN col : isnan(col[i]) THEN NaN ELSE MaxSeq(col)

\* (mutant) the first maximum only
LocFirstMaxOnly(col, mx) ==
    IF isnan(mx) THEN {}
    ELSE {CHOOSE s \in DOMAIN col : col[s] = mx /\ \A r \in DOMAIN col : col[r] = mx => s <= r}

\* posterior[:, meas_i] == np.max(posterior[:, meas_i]); nothing equals NaN
LocPercept(col, mx) == IF isnan(mx) THEN {} ELSE {s \in DOMAIN col : col[s] = mx}

\* the positions loc of stim_mean_space, ascending, in the leading slots of a
\* row of NaN
RowOfMaps(stim_mean_space, loc) ==
    [c \in 1..Len(stim_mean_space) |->
        IF c <= Cardinality(loc)
        THEN stim_mean_space[CHOOSE s \in loc : Cardinality({r \in loc : r <= s}) = c]
        ELSE NaN]

PerceptRow(stim_mean_space, col) == RowOfMaps(stim_mean_space, LocPercept(col, ColMax(col)))

\* (mutant) the slots padded with NaN are counted too
NbSlots(row) == Len(row)

\* np.sum(~np.isnan(percept), 1), for one row
NbPercepts(row) == Cardinality({c \in 1..Len(row) : ~isnan(row[c])})

\* percept[:, :max_nb_percept]
DropNaNCols(percept, max_nb_percept) ==
    [err |-> None,
     percept |-> Grid([m \in 1..Len(percept) |-> SubSeq(percept[m], 1, max_nb_percept)]),
     max_nb_percept |-> max_nb_percept]

RaisedChoose(e) == [err |-> e, percept |-> None, max_nb_percept |-> None]

\* the checks made on the rows found, then the replacement of 0 by 360
CheckPercepts(full) ==
    IF \E m \in 1..Len(full) : NbPercepts(full[m]) = 0
    THEN RaisedChoose("ValueError: measurement has no percept")
    ELSE IF \E m \in 1..Len(full) : \E c \in 1..Len(full[m]) :
               /\ ~isnan(full[m][c])
               /\ full[m][c] # 0
               /\ (full[m][c] > SpaceSize \/ full[m][c] < 1)
    THEN RaisedChoose("ValueError: percepts must belong to [1,360]")
    ELSE DropNaNCols(
            Grid([m \in 1..Len(full) |-> [c \in 1..Len(full[m]) |->
                    IF full[m][c] = 0 THEN SpaceSize ELSE full[m][c]]]),
            MaxSeq([m \in 1..Len(full) |-> NbPercepts(full[m])]))

\* (mutant) every readout is read as "map"
AnyReadoutIsMap(readout) == TRUE

IsMap(readout) == readout = "map"

\* [err, percept, max_nb_percept]; percept has one row per measurement
choose_percept(readout, stim_mean_space, posterior) ==
    IF IsMap(readout)
    THEN CheckPercepts(Grid([meas_i \in 1..Len(stim_mean_space) |->
                               PerceptRow(stim_mean_space, Col(posterior, meas_i))]))
    ELSE RaisedChoose("NotImplementedError")

\* ------------------------------------------------- get_percept_likelihood
\* P(p_i|m_i) = 1 / max_nb_pi_given_mi is kept in units of 1 / ProbUnit
ProbUnit == LcmUpTo(SpaceSize)

\* np.tile(v[:, None], n): the column v repeated n times
TileCols(v, n) == [r \in 1..Len(v) |-> [c \in 1..n |-> v[r]]]

\* np.tile(A, (n, 1)): the rows of A repeated n times
TileRows(A, n) == [i \in 1..(n * Len(A)) |-> A[((i - 1) % Len(A)) + 1]]

\* (mutant) row-major flattening
FlattenC(A, M, C) ==
    [i \in 1..(M * C) |-> A[((i - 1) \div C) + 1][((i - 1) % C) + 1]]

\* A.flatten("F"): column-major flattening of the M x C matrix A
FlattenF(A, M, C) ==
    [i \in 1..(M * C) |-> A[((i - 1) % M) + 1][((i - 1) \div M) + 1]]

\* argsort's order on percepts: ascending, NaN last
Before(a, b) == ~isnan(a) /\ (isnan(b) \/ a < b)

\* to_sort[to_sort[:, 1].argsort()]: the rows ordered by their percept, NaN
\* last.  Rows of equal percept are only ever summed together, so their
\* mutual order does not show in any result; the model keeps it.
RECURSIVE SortByPercept(_)
SortByPercept(rows) ==
    IF Len(rows) <= 1 THEN rows
    ELSE LET pivot == rows[1].percept
         IN  SortByPercept(SelectSeq(Tail(rows), LAMBDA r : Before(r.percept, pivot)))
             \o <<rows[1]>>
             \o SortByPercept(SelectSeq(Tail(rows), LAMBDA r : ~Before(r.percept, pivot)))

\* (mutant) the largest unproduced percept is not added
MissingButLargest(percept_space, percept_set) ==
    SubSeq(SortedSeq(Range(percept_space) \ percept_set), 1,
           Cardinality(Range(percept_space) \ percept_set) - 1)

\* (mutant) no unproduced percept is added
MissingNone(percept_space, percept_set) == <<>>

\* set(percept_space) - set(percept_set); a Python set has no order of its
\* own and the rows are sorted afterwards: the model lists it ascending
MissingPi(percept_space, percept_set) == SortedSeq(Range(percept_space) \ percept_set)

\* (mutant) the sum leaves the first row out
NormaliserFromSecondRow(M, j) == SumSeq(Tail(Col(M, j)))

\* sum(percept_likelihood)[j]: the sum of column j over the rows
Normaliser(M, j) == ColSum(M, j)

\* the rows of to_sort: u_l, flatten_percept, prob_pi_given_mi, prob_mi_given_si
ToSort(percept_space, nS, meas_density, percept, max_nb_percept, max_nb_pi_given_mi) ==
    LET M == Len(percept)
        prob_pi_given_mi ==
            FlattenF(TileCols([m \in 1..M |-> ProbUnit \div max_nb_pi_given_mi[m]],
                              max_nb_percept), M, max_nb_percept)
        prob_mi_given_si == TileRows(meas_density.num, max_nb_percept)
        flatten_percept == FlattenF(percept, M, max_nb_percept)
        u_l == FlattenF(TileCols(percept_space, max_nb_percept), M, max_nb_percept)
    IN  Tuple([i \in 1..(M * max_nb_percept) |->
            [u_l |-> u_l[i],
             percept |-> flatten_percept[i],
             prob_pi_given_mi |-> [j \in 1..nS |-> prob_pi_given_mi[i]],
             prob_mi_given_si |-> prob_mi_given_si[i]]])

\* prob_pi_given_si = prob_pi_given_mi * prob_mi_given_si, row by row
Stack(sorted, nS) ==
    Tuple([i \in 1..Len(sorted) |->
        [u_l |-> sorted[i].u_l,
         percept |-> sorted[i].percept,
         prob_pi_given_si |-> Tuple([j \in 1..nS |->
             sorted[i].prob_pi_given_mi[j] * sorted[i].prob_mi_given_si[j]])]])

\* the stack with a row of zeros for each unproduced percept, sorted again
AllRows(stack, missing_pi, nS) ==
    SortByPercept(stack \o
        [i \in 1..Len(missing_pi) |->
            [u_l |-> NaN,
             percept |-> missing_pi[i],
             prob_pi_given_si |-> Tuple([j \in 1..nS |-> 0])]])

\* one row per percept: the sum of the rows of that percept
SumByPercept(all_rows, percept, nS) ==
    Grid([ix \in 1..Len(percept) |-> [j \in 1..nS |->
        SumSeq([i \in 1..Len(all_rows) |->
            IF all_rows[i].percept = percept[ix]
            THEN all_rows[i].prob_pi_given_si[j] ELSE 0])]])

\* the column of prob_pi_set_given_si that is assigned last to the column of
\* stimulus value s of percept_likelihood; 0 when none is
SourceColumn(stim_mean, s) ==
    IF \E j \in 1..Len(stim_mean) : stim_mean[j] = s
    THEN CHOOSE j \in 1..Len(stim_mean) :
            stim_mean[j] = s /\ \A i \in (j + 1)..Len(stim_mean) : stim_mean[i] # s
    ELSE 0

\* percept_likelihood / sum(percept_likelihood)[None, :]: entry (ix, s) is
\* num[ix][s] / den[s]; NaN where the column was never assigned, or is 0 / 0
Normalised(prob_pi_set_given_si, src, den) ==
    [num |-> Grid([ix \in 1..Len(prob_pi_set_given_si) |-> [s \in 1..Len(src) |->
                IF src[s] = 0 \/ den[s] = 0 THEN NaN
                ELSE prob_pi_set_given_si[ix][src[s]]]]),
     den |-> den]

PerceptLikelihood(prob_pi_set_given_si, src) ==
    Normalised(prob_pi_set_given_si, src,
        Tuple([s \in 1..Len(src) |->
            IF src[s] = 0 THEN NaN ELSE Normaliser(prob_pi_set_given_si, src[s])]))

\* what get_percept_likelihood returns (percept, percept_likelihood), with
\* its local arrays stack, all_rows and prob_pi_set_given_si; the latter's
\* column j is in units of 1 / (ProbUnit * meas_density.den[j])
GplReturn(stim_mean, stim_mean_space, stack, all_rows, percept, prob_pi_set_given_si) ==
    [percept |-> percept,
     percept_likelihood |->
        PerceptLikelihood(prob_pi_set_given_si,
            Tuple([s \in 1..Len(stim_mean_space) |-> SourceColumn(stim_mean, stim_mean_space[s])])),
     stack |-> stack,
     all_rows |-> all_rows,
     prob_pi_set_given_si |-> prob_pi_set_given_si]

GplSum(stim_mean, stim_mean_space, stack, all_rows, percept) ==
    GplReturn(stim_mean, stim_mean_space, stack, all_rows, percept,
              SumByPercept(all_rows, percept, Len(stim_mean)))

GplUnique(stim_mean, stim_mean_space, stack, all_rows) ==
    GplSum(stim_mean, stim_mean_space, stack, all_rows,
           SortedSeq({all_rows[i].percept : i \in 1..Len(all_rows)} \ {NaN}))

GplMissing(percept_space, stim_mean, stim_mean_space, stack) ==
    GplUnique(stim_mean, stim_mean_space, stack,
        AllRows(stack,
                MissingPi(percept_space, {stack[i].percept : i \in 1..Len(stack)} \ {NaN}),
                Len(stim_mean)))

get_percept_likelihood(percept_space, stim_mean, stim_mean_space, meas_density, percept, max_nb_percept) ==
    GplMissing(percept_space, stim_mean, stim_mean_space,
        Stack(SortByPercept(
                ToSort(percept_space, Len(stim_mean), meas_density, percept, max_nb_percept,
                       Tuple([m \in 1..Len(percept) |-> NbPercepts(percept[m])]))),
              Len(stim_mean)))

\* -------------------------------------------------------- get_bayes_lookup
Raised(e) == [err |-> e, percept |-> None, percept_likelihood |-> None]

LookupReturn(meas_density, posterior, candidates, lik) ==
    [err |-> None,
     percept |-> lik.percept,
     percept_likelihood |-> lik.percept_likelihood,
     meas_density |-> meas_density,
     posterior |-> posterior,
     candidates |-> candidates,
     stack |-> lik.stack,
     all_rows |-> lik.all_rows,
     prob_pi_set_given_si |-> lik.prob_pi_set_given_si]

LookupLikelihood(percept_space, stim_mean, stim_mean_space, meas_density, posterior, chosen) ==
    IF chosen.err # None THEN Raised(chosen.err)
    ELSE LookupReturn(meas_density, posterior, chosen.percept,
            get_percept_likelihood(percept_space, stim_mean, stim_mean_space,
                                   meas_density, chosen.percept, chosen.max_nb_percept))

LookupChoose(percept_space, stim_mean, stim_mean_space, meas_density, readout, posterior) ==
    IF posterior.err # None THEN Raised(posterior.err)
    ELSE LookupLikelihood(percept_space, stim_mean, stim_mean_space, meas_density,
            posterior.val, choose_percept(readout, stim_mean_space, posterior.val))

LookupInfer(percept_space, stim_mean, stim_mean_space, k_llh, prior_mode, k_prior, readout, meas_density, llh, learnt_prior) ==
    IF learnt_prior.err # None THEN Raised(learnt_prior.err)
    ELSE LookupChoose(percept_space, stim_mean, stim_mean_space, meas_density, readout,
            do_bayes_inference(k_llh, prior_mode, k_prior, stim_mean_space,
                               llh.num, learnt_prior.num))

get_bayes_lookup(percept_space, stim_mean, k_llh, prior_mode, k_prior, k_card, prior_tail, prior_shape, readout) ==
    LookupInfer(percept_space, stim_mean, Space, k_llh, <<prior_mode>>, k_prior, readout,
        VonMisesGet(percept_space, stim_mean, k_llh),
        VonMisesGet(Space, percept_space, k_llh),
        get_learnt_prior(percept_space, <<prior_mode>>, k_prior, prior_shape, Space))

\* ---------------------------------------------------------------- get_logl
\* p_rand is a number of PRandUnit-ths
PRandUnit == 2

\* 10e-320, the value given to the probabilities that are <= 0: a positive
\* number below every other probability of the model
Epsilon == -2

\* -log2(10e-320), rounded up
FloorNegLog == 1060

\* np.unique(v): the values of v, ascending
unique(v) == SortedSeq(Range(v))

Reverse(s) == [i \in 1..Len(s) |-> s[Len(s) + 1 - i]]

\* sorted(np.unique(v), reverse=True)
SortedReverse(v) == Tuple(Reverse(unique(v)))

\* fit_p[params_loc[name]], loc being params_loc[name]; positions count from 0
Slice(fit_p, loc) == Tuple([i \in 1..Len(loc) |-> fit_p[loc[i] + 1]])

\* the boolean matrices LLHs and Prior: entry (t, i) tells whether the
\* noise level of trial t is level_set[i]; NaN == NaN is False
Located(v, level_set) ==
    Grid([t \in 1..Len(v) |-> [i \in 1..Len(level_set) |->
            ~isnan(v[t]) /\ v[t] = level_set[i]]])

\* llh_map[ix][jx]: the lookup of prior-noise level ix and stimulus-noise
\* level jx; k_llh[jx] or k_prior[ix] beyond the list is an IndexError
LookupCell(stim_mean_set, k_llh, k_prior, k_card, prior_tail, fixed, ix, jx) ==
    IF jx > Len(k_llh) \/ ix > Len(k_prior) THEN Raised("IndexError")
    ELSE get_bayes_lookup(Space, stim_mean_set, k_llh[jx], fixed.prior_mode, k_prior[ix],
                          k_card, prior_tail, fixed.prior_shape, fixed.readout)

LlhMap(stim_mean_set, k_llh, k_prior, k_card, prior_tail, fixed, n_prior_std, n_stim_std) ==
    Grid([ix \in 1..n_prior_std |-> [jx \in 1..n_stim_std |->
            LookupCell(stim_mean_set, k_llh, k_prior, k_card, prior_tail, fixed, ix, jx)]])

\* the exception of the first lookup that raises, in the order of the loops
FirstRaised(cells) ==
    IF \A i \in 1..Len(cells) : cells[i].err = None THEN None
    ELSE cells[CHOOSE i \in 1..Len(cells) :
                  cells[i].err # None /\ \A j \in 1..(i - 1) : cells[j].err = None].err

\* column s of a lookup table: numerators, over the denominator of the column
TableColumn(table, s) == [num |-> Col(table.num, s), den |-> table.den[s]]

NaNColumn(n) == [num |-> Tuple([p \in 1..n |-> NaN]), den |-> NaN]

\* np.logical_and(x1, x2, out): the third positional argument is the array
\* the result is stored into (and the one returned); it is no operand
logical_and(x1, x2, out) == Tuple([t \in 1..Len(x1) |-> x1[t] /\ x2[t]])

\* PupoGivenBI[:, loc_conditions] = column
AssignColumns(PupoGivenBI, loc_conditions, column) ==
    Tuple([t \in 1..Len(PupoGivenBI) |-> IF loc_conditions[t] THEN column ELSE PupoGivenBI[t]])

\* the body of the three loops, for stimulus mean ix, prior-noise level jx
\* and stimulus-noise level kx
FillCondition(PupoGivenBI, stim_mean, stim_mean_set, LLHs, Prior, llh_map, ix, jx, kx) ==
    AssignColumns(PupoGivenBI,
        logical_and(Tuple([t \in 1..Len(stim_mean) |-> stim_mean[t] = stim_mean_set[ix]]),
                    Col(LLHs, kx), Col(Prior, jx)),
        TableColumn(llh_map[jx][kx], stim_mean_set[ix]))

\* the three loops from their i-th turn on: ix is the outer index, kx the
\* inner one
RECURSIVE FillColumns(_, _, _, _, _, _, _)
FillColumns(PupoGivenBI, i, stim_mean, stim_mean_set, LLHs, Prior, llh_map) ==
    IF i > Len(stim_mean_set) * Len(llh_map) * Len(llh_map[1]) THEN PupoGivenBI
    ELSE FillColumns(
            FillCondition(PupoGivenBI, stim_mean, stim_mean_set, LLHs, Prior, llh_map,
                ((i - 1) \div (Len(llh_map) * Len(llh_map[1]))) + 1,
                (((i - 1) \div Len(llh_map[1])) % Len(llh_map)) + 1,
                ((i - 1) % Len(llh_map[1])) + 1),
            i + 1, stim_mean, stim_mean_set, LLHs, Prior, llh_map)

\* PupoGivenBI / sum(PupoGivenBI)[None, :]
NormalisedBI(column) ==
    IF \E p \in 1..Len(column.num) : isnan(column.num[p]) THEN NaNColumn(Len(column.num))
    ELSE IF SumSeq(column.num) = 0 THEN NaNColumn(Len(column.num))
    ELSE [num |-> column.num, den |-> SumSeq(column.num)]

\* PupoGivenBI * (1 - p_rand) + PupoGivenRand * p_rand, PupoGivenRand being
\* 1 / 360 everywhere
Mixed(column, p_rand) ==
    IF isnan(column.den) THEN column
    ELSE [num |-> Tuple([p \in 1..Len(column.num) |->
                      column.num[p] * (PRandUnit - p_rand) * SpaceSize + p_rand * column.den]),
          den |-> column.den * PRandUnit * SpaceSize]

\* Python's all(v): no element of v is 0 (NaN is not 0)
all(v) == \A i \in 1..Len(v) : v[i] # 0

\* sum(PupoGivenModel): the sum of each column
ColumnSums(columns) ==
    Tuple([t \in 1..Len(columns) |->
        IF isnan(columns[t].den) THEN NaN ELSE SumSeq(columns[t].num)])

\* `not all(sum(PupoGivenModel)) == 1` is `not (all(...) == 1)`, and True == 1
SumCheckFails(PupoGivenModel) == ~(all(ColumnSums(PupoGivenModel)))

\* the index of the space that is x modulo its size
Wrap(x) == ((x - 1) % SpaceSize) + 1

\* get_circ_conv(X, Pmot), for one column: the circular convolution of X
\* with the motor noise density, whose mode is the wrap point of the space
get_circ_conv(column, Pmot) ==
    IF isnan(column.den) THEN column
    ELSE [num |-> Tuple([e \in 1..SpaceSize |->
                      SumSeq([p \in 1..SpaceSize |-> column.num[p] * Pmot.num[Wrap(e - p)][1]])]),
          den |-> column.den * Pmot.den[1]]

\* (mutant) the probabilities that are <= 0 are left as they are
NotFloored(x) == x

\* PestimateGivenModel[PestimateGivenModel <= 0] = 10e-320
Floored(x) == IF ~isnan(x) /\ x <= 0 THEN Epsilon ELSE x

FlooredColumn(column) ==
    [num |-> Tuple([e \in 1..Len(column.num) |-> Floored(column.num[e])]), den |-> column.den]

\* what the entries above Epsilon sum to; Epsilon adds nothing to a sum
\* that is not 0
Mass(num) == SumSeq([e \in 1..Len(num) |-> IF num[e] > 0 THEN num[e] ELSE 0])

\* PestimateGivenModel / sum(PestimateGivenModel)[None, :]
Renormalised(column) ==
    IF isnan(column.den) THEN column
    ELSE IF Mass(column.num) > 0 THEN [num |-> column.num, den |-> Mass(column.num)]
    ELSE IF \E e \in 1..Len(column.num) : column.num[e] = Epsilon
    THEN [num |-> Tuple([e \in 1..Len(column.num) |-> IF column.num[e] = Epsilon THEN 1 ELSE 0]),
          den |-> Cardinality({e \in 1..Len(column.num) : column.num[e] = Epsilon})]
    ELSE NaNColumn(Len(column.num))

\* (mutant) the estimates that are 0 are moved to the first percept
ZeroToFirst(estimate) ==
    Tuple([t \in 1..Len(estimate) |-> IF estimate[t] = 0 THEN 1 ELSE estimate[t]])

\* estimate[estimate == 0] = 360
Canonical(estimate) ==
    Tuple([t \in 1..Len(estimate) |-> IF estimate[t] = 0 THEN SpaceSize ELSE estimate[t]])

\* PestimateGivenModel[estimate_loc, conditions_loc]
Gathered(PestimateGivenModel, estimate) ==
    Tuple([t \in 1..Len(estimate) |->
        [num |-> PestimateGivenModel[t].num[estimate[t]], den |-> PestimateGivenModel[t].den]])

\* PdataGivenModel <= 0, for one trial; nothing holds of NaN
NotPositive(P) == ~isnan(P.num) /\ P.num # Epsilon /\ P.num <= 0

\* the least k such that num * 2^k >= den
RECURSIVE Halvings(_, _)
Halvings(num, den) == IF num >= den THEN 0 ELSE 1 + Halvings(num, (den + 1) \div 2)

\* -np.log(P) of one trial, in bits rounded up (rounded down when P > 1)
NegLog(P) ==
    IF P.num = Epsilon THEN FloorNegLog
    ELSE IF P.num <= P.den THEN Halvings(P.num, P.den)
    ELSE 0 - Halvings(P.den, P.num)

\* -sum(np.log(PdataGivenModel)); NaN as soon as a trial is NaN
NegSumLog(PdataGivenModel) ==
    IF \E t \in 1..Len(PdataGivenModel) : isnan(PdataGivenModel[t].num) THEN NaN
    ELSE SumSeq([t \in 1..Len(PdataGivenModel) |-> NegLog(PdataGivenModel[t])])

\* what get_logl leaves behind: the exception raised or the value returned,
\* the Series estimate as the call leaves it, and the local arrays
LoglOutcome(err, negLogl, estimate, llh_map, PupoGivenBI, PdataGivenModel) ==
    [err |-> err, negLogl |-> negLogl, estimate |-> estimate, llh_map |-> llh_map,
     PupoGivenBI |-> PupoGivenBI, PdataGivenModel |-> PdataGivenModel]

LoglSanity(estimate, llh_map, PupoGivenBI, PdataGivenModel) ==
    IF \E t \in 1..Len(PdataGivenModel) : NotPositive(PdataGivenModel[t])
    THEN LoglOutcome("ValueError: likelihood<0, but must be>0", None, estimate, llh_map,
                     PupoGivenBI, PdataGivenModel)
    ELSE LoglOutcome(None, NegSumLog(PdataGivenModel), estimate, llh_map,
                     PupoGivenBI, PdataGivenModel)

LoglGather(estimate, llh_map, PupoGivenBI, PestimateGivenModel) ==
    LoglSanity(estimate, llh_map, PupoGivenBI, Gathered(PestimateGivenModel, estimate))

LoglMotor(estimate, llh_map, PupoGivenBI, PupoGivenModel, Pmot) ==
    LoglGather(Canonical(estimate), llh_map, PupoGivenBI,
        Tuple([t \in 1..Len(PupoGivenModel) |->
            Renormalised(FlooredColumn(get_circ_conv(PupoGivenModel[t], Pmot)))]))

LoglCheck(estimate, llh_map, PupoGivenBI, PupoGivenModel, k_m) ==
    IF SumCheckFails(PupoGivenModel)
    THEN LoglOutcome("ValueError: PupoGivenModel should sum to 1", None, estimate, llh_map,
                     PupoGivenBI, None)
    ELSE LoglMotor(estimate, llh_map, PupoGivenBI, PupoGivenModel,
                   VonMisesGet(Space, <<SpaceSize>>, k_m))

LoglMix(estimate, llh_map, PupoGivenBI, p_rand, k_m) ==
    LoglCheck(estimate, llh_map, PupoGivenBI,
        Tuple([t \in 1..Len(PupoGivenBI) |-> Mixed(NormalisedBI(PupoGivenBI[t]), p_rand)]),
        k_m)

LoglFill(stim_mean, estimate, stim_mean_set, LLHs, Prior, llh_map, p_rand, k_m) ==
    LoglMix(estimate, llh_map,
        FillColumns(Tuple([t \in 1..Len(estimate) |-> NaNColumn(SpaceSize)]), 1,
                    stim_mean, stim_mean_set, LLHs, Prior, llh_map),
        p_rand, k_m)

LoglTables(stim_mean, estimate, stim_mean_set, LLHs, Prior, cells, p_rand, k_m) ==
    IF FirstRaised(Concat(cells)) # None
    THEN LoglOutcome(FirstRaised(Concat(cells)), None, estimate, None, None, None)
    ELSE LoglFill(stim_mean, estimate, stim_mean_set, LLHs, Prior,
            Grid([ix \in 1..Len(cells) |-> [jx \in 1..Len(cells[ix]) |->
                    cells[ix][jx].percept_likelihood]]),
            p_rand, k_m)

LoglParams(fit_p, p_loc, fixed, stim_mean, estimate, stim_std, prior_std, stim_std_set, prior_std_set) ==
    LoglTables(stim_mean, estimate, unique(stim_mean),
        Located(stim_std, stim_std_set), Located(prior_std, prior_std_set),
        LlhMap(unique(stim_mean),
               Slice(fit_p, Get(p_loc, "k_llh")), Slice(fit_p, Get(p_loc, "k_prior")),
               Slice(fit_p, Get(p_loc, "k_card")),
               Slice(fit_p, Get(p_loc, "prior_tail"))[1],
               fixed, Len(prior_std_set), Len(stim_std_set)),
        Slice(fit_p, Get(p_loc, "p_rand"))[1],
        Slice(fit_p, Get(p_loc, "k_m"))[1])

get_logl(fit_p, params, stim_mean, estimate) ==
    LoglParams(fit_p, locate_fit_params(params.model.init_params), params.model.fixed_params,
        stim_mean, estimate,
        params.task.fixed_params.stim_std, params.task.fixed_params.prior_std,
        SortedReverse(params.task.fixed_params.stim_std),
        SortedReverse(params.task.fixed_params.prior_std))

\* ------------------------------------------------------------- get_params
init_params ==
    <<[key |-> "k_llh", val |-> <<1, 1>>],
      [key |-> "k_prior", val |-> <<1, 1>>],
      [key |-> "k_card", val |-> <<1>>],
      [key |-> "prior_tail", val |-> <<0>>],
      [key |-> "p_rand", val |-> <<0>>],
      [key |-> "k_m", val |-> <<0>>]>>

\* a DataFrame is the sequence of its rows (the trials)
Column(frame, name) == Tuple([t \in 1..Len(frame) |-> frame[t][name]])

get_params(frame, prior_shape, prior_mode, readout) ==
    [model |-> [init_params |-> init_params,
                fixed_params |-> [prior_shape |-> prior_shape, prior_mode |-> prior_mode,
                                  readout |-> readout]],
     task |-> [fixed_params |-> [stim_std |-> Column(frame, "stim_std"),
                                 prior_std |-> Column(frame, "prior_std")]]]

\* --------------------------------------------------------------- get_data
\* database["estimate"][loc_zero] = 360: the write goes through to the
\* caller's DataFrame, unless pandas runs in copy-on-write mode, where it
\* goes to a temporary and is lost
SetZeroTo360(frame, cow) ==
    IF cow THEN frame
    ELSE Tuple([t \in 1..Len(frame) |->
            [frame[t] EXCEPT !.estimate = IF @ = 0 THEN SpaceSize ELSE @]])

\* the DataFrame as get_data leaves it, and what it returns
get_data(frame, cow) ==
    [database |-> SetZeroTo360(frame, cow),
     stim_mean |-> Column(frame, "stim_mean"),
     estimate |-> Column(SetZeroTo360(frame, cow), "estimate")]

\* the DataFrame after a write into the Series of its estimate column: the
\* Series is the column itself, or its copy in copy-on-write mode
WithEstimate(frame, estimate, cow) ==
    IF cow THEN frame
    ELSE Tuple([t \in 1..Len(frame) |-> [frame[t] EXCEPT !.estimate = estimate[t]]])

\* ------------------------------------------------------------ fit_maxlogl
\* maxiter and maxfun of the call of fmin (100 and 100 in the code)
maxiter == 3
maxfun == 3

\* Python values, with their type
ndarray(v) == [type |-> "ndarray", value |-> v]
float(x) == [type |-> "float", value |-> x]

\* f(a) < f(b) for two objective values; nothing is below or above NaN
Below(a, b) == ~isnan(a) /\ ~isnan(b) /\ a < b

\* (mutant) the number of calls of the objective is not capped
IterationCapOnly(state) == state.iterations < maxiter

\* the condition of fmin's loop: an iteration is started only while neither
\* maxfun calls of the objective nor maxiter iterations have been made
CapsAllow(state) == state.funcalls < maxfun /\ state.iterations < maxiter

\* fmin(..., retall=True) without full_output returns (xopt, allvecs)
fmin_output(state) == <<state.sim0, state.allvecs>>

\* the dictionary fit_maxlogl returns
FitResult(output) == [err |-> None, neglogl |-> output[2], best_fit_params |-> output[1]]

FitRaised(e) == [err |-> e, neglogl |-> None, best_fit_params |-> None]

\* params after a call of get_logl, which hands params["model"]["init_params"]
\* to locate_fit_params and writes into nothing of params itself
ParamsAfterLogl(params) == [params EXCEPT !.model.init_params = LeftByLocate(@)]

\* the state of fmin after the initial simplex, which is x0 and points next
\* to it, has been evaluated: logl is what get_logl gave at x0
FminStarted(params, data, x0, logl) ==
    [params |-> ParamsAfterLogl(params),
     maps |-> <<locate_fit_params(params.model.init_params)>>, stim_mean |-> data.stim_mean, estimate |-> logl.estimate,
     x0 |-> x0, iterations |-> 1, funcalls |-> 1,
     sim0 |-> ndarray(x0), fsim0 |-> float(logl.negLogl),
     allvecs |-> <<ndarray(x0)>>, fvals |-> <<float(logl.negLogl)>>,
     calls |-> <<logl.err>>, err |-> logl.err]

FitStarted(params, data, x0) ==
    FminStarted(params, data, x0, get_logl(x0, params, data.stim_mean, data.estimate))

\* what a call of the objective leaves, whatever it gave: calls keeps, for
\* each call, the exception it raised (None if it returned), and maps the
\* index map the call worked with
Called(state, logl) ==
    [state EXCEPT !.estimate = logl.estimate, !.funcalls = @ + 1,
                  !.calls = Append(@, logl.err),
                  !.maps = Append(@, locate_fit_params(state.params.model.init_params)),
                  !.params = ParamsAfterLogl(@)]

\* the simplex after the objective gave logl at the point x
Evaluated(state, x, logl) ==
    IF logl.err # None
    THEN [Called(state, logl) EXCEPT !.err = logl.err]
    ELSE IF Below(logl.negLogl, state.fsim0.value)
    THEN [Called(state, logl) EXCEPT !.sim0 = ndarray(x), !.fsim0 = float(logl.negLogl)]
    ELSE Called(state, logl)

\* (mutant) the objective is called again after a call of it has raised
EvaluateAnyway(state, x) ==
    Evaluated(state, x, get_logl(x, state.params, state.stim_mean, state.estimate))

\* one call of the objective by fmin, at the point x; an exception of an
\* earlier call has ended the search: neither fmin nor fit_maxlogl catches it
Evaluate(state, x) ==
    IF state.err # None THEN state
    ELSE Evaluated(state, x, get_logl(x, state.params, state.stim_mean, state.estimate))

\* the end of an iteration: iterations += 1; allvecs.append(sim[0])
IterationEnd(state) ==
    IF state.err # None THEN state
    ELSE [state EXCEPT !.iterations = @ + 1,
                       !.allvecs = Append(@, state.sim0),
                       !.fvals = Append(@, state.fsim0)]

\* ---------------------------------------------------- SpecLocate (C4)
ParamValues == {0, 1}

ListsUpTo(n) == UNION {[1..m -> ParamValues] : m \in 0..n}

LocInit ==
    /\ pc = "locate"
    /\ \E g \in 0..MaxGroups : \E f \in [1..g -> ListsUpTo(MaxGroupLen)] :
          lp_params = [i \in 1..g |-> [key |-> GroupNames[i], val |-> f[i]]]
    /\ params_loc = None
    /\ flat = None
    /\ ChooseIdle /\ LookupIdle /\ LoglIdle /\ FitIdle /\ VmIdle

LocateFitParams ==
    /\ pc = "locate"
    /\ params_loc' = locate_fit_params(lp_params)
    /\ pc' = "unpack"
    /\ UNCHANGED <<lp_params, flat, chooseVars, lookupVars, loglVars, fitVars, vmVars>>

Unpack ==
    /\ pc = "unpack"
    /\ flat' = unpack(lp_params)
    /\ pc' = "located"
    /\ UNCHANGED <<lp_params, params_loc, chooseVars, lookupVars, loglVars, fitVars, vmVars>>

LocNext == LocateFitParams \/ Unpack

SpecLocate == LocInit /\ [][LocNext]_vars

\* C4: locate_fit_params keeps the group names and their order, gives out the
\* positions 0, 1, 2, ... consecutively in group order and within-group order
\* (so they partition 0..n-1), and each position indexes, in unpack(params),
\* the parameter it stands for.
C4_IndexMapSlicesFlatVector ==
    pc = "located" =>
        /\ Len(params_loc) = Len(lp_params)
        /\ \A g \in 1..Len(lp_params) :
              /\ params_loc[g].key = lp_params[g].key
              /\ Len(params_loc[g].val) = Len(lp_params[g].val)
              /\ \A i \in 1..Len(lp_params[g].val) :
                    /\ params_loc[g].val[i] + 1 \in 1..Len(flat)
                    /\ flat[params_loc[g].val[i] + 1] = lp_params[g].val[i]
        /\ unpack(params_loc) = [n \in 1..Len(flat) |-> n - 1]

C4_Witness ==
    /\ pc = "located"
    /\ Len(lp_params) >= 2
    /\ Len(lp_params[1].val) = 2
    /\ Len(lp_params[2].val) >= 1
    /\ lp_params[1].val[1] # lp_params[2].val[1]

\* ---------------------------------------------------- SpecChoose (C5)
\* choose_percept on every posterior whose columns are 0/1 patterns (every
\* set of tied maxima occurs, the flat column included) or all-NaN.
PosteriorColumns ==
    [1..SpaceSize -> {0, 1}] \cup {[s \in 1..SpaceSize |-> NaN]}

Readouts == {"map", "mean"}

ChooseInit ==
    /\ pc = "choose"
    /\ cp_readout \in Readouts
    /\ \E cols \in [1..SpaceSize -> PosteriorColumns] :
          cp_posterior = [s \in 1..SpaceSize |-> [m \in 1..SpaceSize |-> cols[m][s]]]
    /\ cp_out = None
    /\ LocIdle /\ LookupIdle /\ LoglIdle /\ FitIdle /\ VmIdle

ChoosePercept ==
    /\ pc = "choose"
    /\ cp_out' = choose_percept(cp_readout, Space, cp_posterior)
    /\ pc' = "chosen"
    /\ UNCHANGED <<cp_readout, cp_posterior, locVars, lookupVars, loglVars, fitVars, vmVars>>

ChooseNext == ChoosePercept

SpecChoose == ChooseInit /\ [][ChooseNext]_vars

\* the stimulus-space positions where column m of the posterior is maximal
ArgMaxSet(posterior, m) ==
    {s \in 1..SpaceSize : \A r \in 1..SpaceSize : posterior[r][m] <= posterior[s][m]}

\* C5: with readout "map", row m of the percept matrix holds, in its leading
\* slots and ascending, exactly the positions where posterior column m is
\* maximal, and NaN in the other slots; the matrix is as wide as the largest
\* number of candidates; a flat column gives all the positions of the space.
C5_MapKeepsAllTiedMaxima ==
    (pc = "chosen" /\ cp_readout = "map" /\ cp_out.err = None) =>
        LET percept == cp_out.percept
            width == cp_out.max_nb_percept
            n(m) == Cardinality(ArgMaxSet(cp_posterior, m))
        IN  /\ Len(percept) = SpaceSize
            /\ \A m \in 1..SpaceSize :
                  /\ Len(percept[m]) = width
                  /\ n(m) <= width
                  /\ {percept[m][c] : c \in 1..n(m)} = ArgMaxSet(cp_posterior, m)
                  /\ \A c \in 1..(n(m) - 1) : percept[m][c] < percept[m][c + 1]
                  /\ \A c \in (n(m) + 1)..width : isnan(percept[m][c])
                  /\ (\A s \in 1..SpaceSize : cp_posterior[s][m] = cp_posterior[1][m])
                        => SubSeq(percept[m], 1, SpaceSize) = Space
            /\ \E m \in 1..SpaceSize : n(m) = width

C5_Witness ==
    /\ pc = "chosen" /\ cp_readout = "map" /\ cp_out.err = None
    /\ cp_out.max_nb_percept = SpaceSize
    /\ \E m \in 1..SpaceSize : cp_out.percept[m] = Space
    /\ \E m \in 1..SpaceSize : isnan(cp_out.percept[m][2])
    /\ \E m \in 1..SpaceSize :
          ~isnan(cp_out.percept[m][2]) /\ isnan(cp_out.percept[m][SpaceSize])

\* ---------------------------------------------------- SpecVonMises (C14)
\* VonMises(p=True).get on every list of evaluation points and of locations
\* (ascending, no repeats) and every list of 1 to MaxConcentrations
\* concentrations.
MaxConcentrations == 2

ConcentrationLists == UNION {[1..n -> 0..KInf] : n \in 1..MaxConcentrations}

PointLists == {SortedSeq(S) : S \in (SUBSET (1..SpaceSize)) \ {{}}}

VonMisesInit ==
    /\ pc = "vonmises"
    /\ \E v_x \in PointLists, v_u \in PointLists, v_k \in ConcentrationLists :
          vm_args = [v_x |-> v_x, v_u |-> v_u, v_k |-> v_k]
    /\ vm_out = None
    /\ LocIdle /\ ChooseIdle /\ LookupIdle /\ LoglIdle /\ FitIdle

VonMisesCall ==
    /\ pc = "vonmises"
    /\ vm_out' = VonMisesGetAll(vm_args.v_x, vm_args.v_u, vm_args.v_k)
    /\ pc' = "vonmises_done"
    /\ UNCHANGED <<vm_args, locVars, chooseVars, lookupVars, loglVars, fitVars>>

VonMisesNext == VonMisesCall

SpecVonMises == VonMisesInit /\ [][VonMisesNext]_vars

\* what column c of the matrix returned sums to, in units of 1 / den[c]:
\* a column of densities that are all 0 is 0 / 0 after its normalisation
ColumnTotal(c) ==
    IF vm_out.den[c] = 0 THEN NaN ELSE ColSum(vm_out.num, c)

\* C14: the value returned is a matrix of one row per evaluation point and
\* one column per combination of a location and a concentration; no column
\* of it sums to 0, and the column of a location that is among the
\* evaluation points sums to 1.
C14_MatrixOfPointsByCombinations ==
    pc = "vonmises_done" =>
        /\ Len(vm_out.num) = Len(vm_args.v_x)
        /\ Len(vm_out.den) = Len(vm_args.v_u) * Len(vm_args.v_k)
        /\ \A i \in 1..Len(vm_out.num) :
              Len(vm_out.num[i]) = Len(vm_args.v_u) * Len(vm_args.v_k)
        /\ \A c \in 1..Len(vm_out.den) :
              /\ ColumnTotal(c) # 0
              /\ (\E i \in 1..Len(vm_args.v_x) :
                    vm_args.v_x[i] = vm_args.v_u[((c - 1) % Len(vm_args.v_u)) + 1])
                    => ColumnTotal(c) = vm_out.den[c]

\* the whole space with two concentrations, a flat and a peaked one: twice
\* as many columns as locations
C14_Witness ==
    /\ pc = "vonmises_done"
    /\ vm_args.v_x = Space
    /\ vm_args.v_u = Space
    /\ vm_args.v_k = <<0, 1>>
    /\ Len(vm_out.num[1]) = 2 * SpaceSize
    /\ vm_out.num[1][1] # vm_out.num[1][SpaceSize + 1]


\* ------------------------------------------- SpecLookup (C7, C8, C9)
\* get_bayes_lookup on every set of stimulus means (as np.unique gives it:
\* ascending, no repeats), concentrations, prior mode and readout.
Concentrations == 0..KInf

StimMeanSets == {SortedSeq(S) : S \in (SUBSET (1..SpaceSize)) \ {{}}}

LookupInit ==
    /\ pc = "lookup"
    /\ \E sm \in StimMeanSets, kl, kp \in Concentrations, pm \in 1..SpaceSize, ro \in Readouts :
          bl_args = [stim_mean |-> sm, k_llh |-> kl, prior_mode |-> pm, k_prior |-> kp,
                     k_card |-> 0, prior_tail |-> 0, prior_shape |-> "vonMisesPrior",
                     readout |-> ro]
    /\ bl_out = None
    /\ LocIdle /\ ChooseIdle /\ LoglIdle /\ FitIdle /\ VmIdle

GetBayesLookup ==
    /\ pc = "lookup"
    /\ bl_out' = get_bayes_lookup(Space, bl_args.stim_mean, bl_args.k_llh,
                                  bl_args.prior_mode, bl_args.k_prior, bl_args.k_card,
                                  bl_args.prior_tail, bl_args.prior_shape, bl_args.readout)
    /\ pc' = "looked_up"
    /\ UNCHANGED <<bl_args, locVars, chooseVars, loglVars, fitVars, vmVars>>

LookupNext == GetBayesLookup

SpecLookup == LookupInit /\ [][LookupNext]_vars

LookupReturned == pc = "looked_up" /\ bl_out.err = None

\* the candidate percepts of measurement m, and their number
Candidates(m) == Range(bl_out.candidates[m]) \ {NaN}
NbCandidates(m) == Cardinality(Candidates(m))
Produced == UNION {Candidates(m) : m \in 1..SpaceSize}

\* sum over the measurements m whose candidates contain p of
\* (1 / k_m) * P(m | stim_mean[j]), in units of 1 / (ProbUnit * den[j])
TieSplitSum(p, j) ==
    SumSeq([m \in 1..SpaceSize |->
        IF p \in Candidates(m)
        THEN (ProbUnit \div NbCandidates(m)) * bl_out.meas_density.num[m][j]
        ELSE 0])

\* C7: the value accumulated for percept p and stimulus mean s before the
\* final normalisation is the sum, over exactly the measurements m that have
\* p among their candidates, of (1 / k_m) * P(m|s), k_m being the number of
\* candidates of m.
C7_TiesSplitEquallyPerMeasurement ==
    LookupReturned =>
        \A ix \in 1..Len(bl_out.percept) : \A j \in 1..Len(bl_args.stim_mean) :
            bl_out.prob_pi_set_given_si[ix][j] = TieSplitSum(bl_out.percept[ix], j)

C7_Witness ==
    /\ LookupReturned
    /\ \E m1, m2, m3 \in 1..SpaceSize :
          /\ NbCandidates(m1) = 1 /\ NbCandidates(m2) = 2
          /\ m1 # m3 /\ Candidates(m1) \cap Candidates(m3) # {}
    /\ \E ix \in 1..Len(bl_out.percept) : \E j \in 1..Len(bl_args.stim_mean) :
          /\ bl_out.prob_pi_set_given_si[ix][j] > 0
          /\ bl_out.prob_pi_set_given_si[ix][j] < ProbUnit
    /\ Len(bl_args.stim_mean) >= 2

\* the sum of the rows of the stack (before the unproduced percepts are
\* added) whose percept is p, in column j
StackSum(p, j) ==
    SumSeq([i \in 1..Len(bl_out.stack) |->
        IF bl_out.stack[i].percept = p THEN bl_out.stack[i].prob_pi_given_si[j] ELSE 0])

\* the row of percept p in the returned table (0 when it has none)
RowOf(p) ==
    IF \E ix \in 1..Len(bl_out.percept) : bl_out.percept[ix] = p
    THEN CHOOSE ix \in 1..Len(bl_out.percept) : bl_out.percept[ix] = p
    ELSE 0

\* C8: a percept of percept_space that no measurement has among its
\* candidates is in the returned table with likelihood 0 for every stimulus
\* mean supplied; a percept that some measurement produces keeps, in the
\* table, what was accumulated for it before the insertion.
C8_UnproducedPerceptsGetZero ==
    LookupReturned =>
        \A p \in 1..SpaceSize : \A j \in 1..Len(bl_args.stim_mean) :
            LET s == bl_args.stim_mean[j]
                table == bl_out.percept_likelihood
            IN  /\ RowOf(p) # 0
                /\ p \notin Produced => table.num[RowOf(p)][s] = 0 /\ table.den[s] > 0
                /\ p \in Produced => table.num[RowOf(p)][s] = StackSum(p, j)

C8_Witness ==
    /\ LookupReturned
    /\ \E p, q \in 1..SpaceSize : \E j \in 1..Len(bl_args.stim_mean) :
          /\ p \notin Produced
          /\ q \in Produced
          /\ bl_out.percept_likelihood.num[RowOf(q)][bl_args.stim_mean[j]] > 0

\* C9 as stated: every column of the returned table sums to 1
C9_EveryColumnSumsToOne ==
    LookupReturned =>
        \A s \in 1..SpaceSize :
            LET table == bl_out.percept_likelihood
            IN  /\ ~isnan(table.den[s])
                /\ \A ix \in 1..Len(bl_out.percept) : ~isnan(table.num[ix][s])
                /\ SumSeq([ix \in 1..Len(bl_out.percept) |-> table.num[ix][s]]) = table.den[s]

\* C9 (amended): the column of every stimulus mean supplied sums to 1 over
\* all the percepts, the rows of unproduced percepts included; the columns
\* of the other values of the stimulus space are NaN.
C9_SuppliedColumnsSumToOne ==
    LookupReturned =>
        \A s \in 1..SpaceSize :
            LET table == bl_out.percept_likelihood
            IN  IF s \in Range(bl_args.stim_mean)
                THEN /\ ~isnan(table.den[s]) /\ table.den[s] > 0
                     /\ \A ix \in 1..Len(bl_out.percept) : ~isnan(table.num[ix][s])
                     /\ SumSeq([ix \in 1..Len(bl_out.percept) |-> table.num[ix][s]])
                           = table.den[s]
                ELSE /\ isnan(table.den[s])
                     /\ \A ix \in 1..Len(bl_out.percept) : isnan(table.num[ix][s])

C9_Witness ==
    /\ LookupReturned
    /\ Produced # 1..SpaceSize
    /\ Range(bl_args.stim_mean) # 1..SpaceSize
    /\ Len(bl_args.stim_mean) >= 2

\* the posterior of the lookup before the closed-form branch has a column
\* that is NaN: likelihood and learnt prior have no common support there
DegenerateColumn(m) ==
    isnan(PosteriorColumn(
            VonMisesGet(Space, Space, bl_args.k_llh).num,
            get_learnt_prior(Space, <<bl_args.prior_mode>>, bl_args.k_prior,
                             bl_args.prior_shape, Space).num,
            m)[1])

BothInfinite == bl_args.k_llh = KInf /\ bl_args.k_prior = KInf

\* C16: when a column of the posterior is NaN, do_bayes_inference (and so
\* the lookup) raises if and only if k_llh and k_prior are not both
\* infinite.
C16_DegenerateRaisesUnlessBothInfinite ==
    (pc = "looked_up" /\ \E m \in 1..SpaceSize : DegenerateColumn(m)) =>
        (bl_out.err # None <=> ~BothInfinite)

\* both concentrations are infinite, a column of the posterior is NaN, and
\* the lookup has raised the exception of the closed-form branch
C16_Witness ==
    /\ pc = "looked_up"
    /\ BothInfinite
    /\ \E m \in 1..SpaceSize : DegenerateColumn(m)
    /\ bl_out.err = "Exception: not yet solved when k is +inf"

\* the rows of the stack that stand for a padded slot: their percept is NaN
PaddedRows == {i \in 1..Len(bl_out.stack) : isnan(bl_out.stack[i].percept)}

\* what the rows I of the stack add up to in column j
StackMass(I, j) ==
    SumSeq([i \in 1..Len(bl_out.stack) |->
        IF i \in I THEN bl_out.stack[i].prob_pi_given_si[j] ELSE 0])

\* C18: the rows of the padded slots add nothing to the table: for every
\* stimulus mean the values accumulated over all the percepts add up to the
\* sum over the measurements m of P(m|s), which is also what the rows of the
\* stack that hold a percept add up to.
C18_PaddedSlotsAddNoMass ==
    LookupReturned =>
        \A j \in 1..Len(bl_args.stim_mean) :
            /\ ColSum(bl_out.prob_pi_set_given_si, j)
                  = ProbUnit * ColSum(bl_out.meas_density.num, j)
            /\ StackMass((1..Len(bl_out.stack)) \ PaddedRows, j)
                  = ProbUnit * ColSum(bl_out.meas_density.num, j)

\* a padded slot carries a product that is not 0 in the stack
C18_Witness ==
    /\ LookupReturned
    /\ \E j \in 1..Len(bl_args.stim_mean) : StackMass(PaddedRows, j) > 0
    /\ Len(bl_args.stim_mean) >= 2

\* C19: the percepts returned with the table are percept_space itself, each
\* value once and ascending, so the table has one row per value of the space
\* and the row of percept p is row p.
C19_PerceptsArePerceptSpace ==
    LookupReturned =>
        /\ bl_out.percept = Space
        /\ Len(bl_out.percept_likelihood.num) = SpaceSize
        /\ \A p \in 1..SpaceSize : RowOf(p) = p

\* the measurements produce one percept only; the other rows of the table
\* are the rows added for the unproduced percepts
C19_Witness ==
    /\ LookupReturned
    /\ Cardinality(Produced) = 1
    /\ Len(bl_out.percept) = SpaceSize


\* -------------------------------------------------- SpecLogl (C1, C6, C10)
\* get_logl called on a dataset of one or two trials, with the parameters
\* get_params sets up and a parameter vector of the shape of init_params.
StdLevels == {1, 2}

Trials ==
    [stim_mean : {1, 2}, stim_std : StdLevels, prior_std : StdLevels,
     estimate : {0, 1}]

Databases == {<<a>> : a \in Trials} \cup {<<a, b>> : a \in Trials, b \in Trials}

\* k_llh (2), k_prior (2), k_card, prior_tail, p_rand, k_m
FitVectors ==
    {<<kl1, kl2, kp1, kp2, 1, 0, r, km>> :
        kl1 \in {1, KBig}, kl2 \in {1}, kp1 \in {0, KBig}, kp2 \in {0, KBig},
        r \in 0..PRandUnit, km \in {0, KBig}}

LoglInit ==
    /\ pc = "logl"
    /\ \E frame \in Databases, fit_p \in FitVectors, readout \in Readouts :
          /\ lg_args = [fit_p |-> fit_p,
                        params |-> get_params(frame, "vonMisesPrior", SpaceSize, readout),
                        stim_mean |-> Column(frame, "stim_mean"),
                        estimate |-> Column(frame, "estimate")]
          /\ lg_estimate = Column(frame, "estimate")
    /\ lg_out = None
    /\ LocIdle /\ ChooseIdle /\ LookupIdle /\ FitIdle /\ VmIdle

\* the call get_logl(fit_p, params, stim_mean, estimate): estimate is the
\* caller's Series, which the call writes into
GetLogl ==
    /\ pc = "logl"
    /\ lg_out' = get_logl(lg_args.fit_p, lg_args.params, lg_args.stim_mean, lg_estimate)
    /\ lg_estimate' = lg_out'.estimate
    /\ pc' = "logl_done"
    /\ UNCHANGED <<lg_args, locVars, chooseVars, lookupVars, fitVars, vmVars>>

LoglNext == GetLogl

SpecLogl == LoglInit /\ [][LoglNext]_vars

LoglDone == pc = "logl_done"

\* get_logl went past the lookup tables: no lookup raised
LoglAssembled == LoglDone /\ lg_out.llh_map # None

\* the index of value v in the list s
IndexIn(s, v) == CHOOSE i \in 1..Len(s) : s[i] = v

\* the column of the stimulus mean of trial t in the table of the condition
\* of trial t: llh_map[j][k], prior_std[t] being the j-th prior-noise level
\* and stim_std[t] the k-th stimulus-noise level
OwnColumn(t) ==
    LET task == lg_args.params.task.fixed_params
        j == IndexIn(SortedReverse(task.prior_std), task.prior_std[t])
        k == IndexIn(SortedReverse(task.stim_std), task.stim_std[t])
    IN  TableColumn(lg_out.llh_map[j][k], lg_args.stim_mean[t])

\* C1: every trial's column of PupoGivenBI is the column of its stimulus
\* mean in the table built for its own (prior-noise, stimulus-noise) levels.
C1_TrialColumnFromOwnCondition ==
    LoglAssembled =>
        \A t \in 1..Len(lg_args.stim_mean) : lg_out.PupoGivenBI[t] = OwnColumn(t)

\* the posterior of the first lookup get_logl makes
FirstPosterior ==
    LET fit_p == lg_args.fit_p
        fixed == lg_args.params.model.fixed_params
    IN  do_bayes_inference(fit_p[1], <<fixed.prior_mode>>, fit_p[3], Space,
            VonMisesGet(Space, Space, fit_p[1]).num,
            get_learnt_prior(Space, <<fixed.prior_mode>>, fit_p[3], fixed.prior_shape, Space).num)

\* C6: with a readout other than "map", get_logl raises and leaves neither
\* a lookup table nor an objective value; what it raises is choose_percept's
\* NotImplementedError whenever the first lookup gets as far as
\* choose_percept (its posterior is computed without an exception).
C6_UnsupportedReadoutPropagates ==
    (LoglDone /\ lg_args.params.model.fixed_params.readout # "map") =>
        /\ lg_out.err # None
        /\ lg_out.negLogl = None
        /\ lg_out.llh_map = None
        /\ FirstPosterior.err = None => lg_out.err = "NotImplementedError"

C6_Witness ==
    /\ LoglDone
    /\ lg_args.params.model.fixed_params.readout # "map"
    /\ lg_out.err = "NotImplementedError"

\* C10: whenever the lookup tables are built, every probability gathered
\* for a trial is in (0, 1] (Epsilon at the least), no sanity check fails,
\* and get_logl returns a value that is not NaN, is finite and is >= 0.
C10_NegLoglFiniteNonNegative ==
    LoglAssembled =>
        /\ lg_out.err = None
        /\ \A t \in 1..Len(lg_out.PdataGivenModel) :
              LET P == lg_out.PdataGivenModel[t]
              IN  P.num = Epsilon \/ (P.num > 0 /\ P.num <= P.den)
        /\ ~isnan(lg_out.negLogl)
        /\ lg_out.negLogl >= 0

\* a value is returned that owes a trial to the floor, another to a
\* probability strictly between 0 and 1
C10_Witness ==
    /\ LoglAssembled
    /\ lg_out.err = None
    /\ \E t, u \in 1..Len(lg_out.PdataGivenModel) :
          /\ lg_out.PdataGivenModel[t].num = Epsilon
          /\ lg_out.PdataGivenModel[u].num > 0
          /\ lg_out.PdataGivenModel[u].num < lg_out.PdataGivenModel[u].den
    /\ lg_out.negLogl > FloorNegLog

\* the estimates the caller passed, 360 standing where they have 0
ZerosAs360 ==
    Tuple([t \in 1..Len(lg_args.estimate) |->
        IF lg_args.estimate[t] = 0 THEN SpaceSize ELSE lg_args.estimate[t]])

\* get_logl on the same arguments, but for the estimates
LoglWith(estimate) == get_logl(lg_args.fit_p, lg_args.params, lg_args.stim_mean, estimate)

\* what the caller of get_logl gets: the exception, or the objective value
Objective(outcome) == <<outcome.err, outcome.negLogl>>

\* C11: get_logl gives a dataset that has an estimate of 0 what it gives the
\* same dataset with 360 in the place of 0: the same exception, or the same
\* objective value.
C11_ZeroEstimateIsEstimate360 ==
    (LoglDone /\ ZerosAs360 # lg_args.estimate) =>
        Objective(lg_out) = Objective(LoglWith(ZerosAs360))

\* a value is returned for a dataset that has an estimate of 0, and it is
\* not the value of every other estimate in the place of 0
C11_Witness ==
    /\ LoglDone
    /\ \E t \in 1..Len(lg_args.estimate) : lg_args.estimate[t] = 0
    /\ lg_out.err = None
    /\ ~isnan(lg_out.negLogl)
    /\ lg_out.negLogl # LoglWith(ZeroToFirst(lg_args.estimate)).negLogl


\* ------------------------------------------------ SpecLoglMissing (C15)
\* get_logl on a dataset in which the stimulus noise of a trial may be
\* missing (NaN): np.unique keeps NaN as a level of its own, the last one of
\* stim_std_set, and no trial is located at it.
TrialsMissing ==
    [stim_mean : {1, 2}, stim_std : {1, NaN}, prior_std : {1}, estimate : {1, 2}]

DatabasesMissing ==
    {<<a>> : a \in TrialsMissing} \cup {<<a, b>> : a \in TrialsMissing, b \in TrialsMissing}

LoglMissingInit ==
    /\ pc = "logl"
    /\ \E frame \in DatabasesMissing, fit_p \in FitVectors :
          /\ lg_args = [fit_p |-> fit_p,
                        params |-> get_params(frame, "vonMisesPrior", SpaceSize, "map"),
                        stim_mean |-> Column(frame, "stim_mean"),
                        estimate |-> Column(frame, "estimate")]
          /\ lg_estimate = Column(frame, "estimate")
    /\ lg_out = None
    /\ LocIdle /\ ChooseIdle /\ LookupIdle /\ FitIdle /\ VmIdle

SpecLoglMissing == LoglMissingInit /\ [][LoglNext]_vars

\* PupoGivenModel, column by column, as get_logl had it at its check
PupoGivenModel ==
    Tuple([t \in 1..Len(lg_out.PupoGivenBI) |->
        Mixed(NormalisedBI(lg_out.PupoGivenBI[t]), lg_args.fit_p[7])])

\* the column is numbers that sum to 1
SumsToOne(column) == ~isnan(column.den) /\ SumSeq(column.num) = column.den

\* C15: once PupoGivenModel is built, get_logl raises the ValueError of its
\* check if and only if some column of PupoGivenModel does not sum to 1.
C15_CheckRaisesUnlessColumnsSumToOne ==
    LoglAssembled =>
        (lg_out.err = "ValueError: PupoGivenModel should sum to 1"
            <=> \E t \in 1..Len(PupoGivenModel) : ~SumsToOne(PupoGivenModel[t]))

\* a column of PupoGivenModel is NaN, the check lets it through, and
\* get_logl returns NaN
C15_Witness ==
    /\ LoglAssembled
    /\ \E t \in 1..Len(PupoGivenModel) : isnan(PupoGivenModel[t].den)
    /\ \E t \in 1..Len(PupoGivenModel) : SumsToOne(PupoGivenModel[t])
    /\ lg_out.err = None
    /\ isnan(lg_out.negLogl)


\* ------------------------------------------------------------ Spec (C2, C3)
\* fit_maxlogl(database, prior_shape, prior_mode, readout).  fmin is the
\* library's simplex search: it calls the objective at points of its own
\* choice, keeps the best point met as sim[0], ends each iteration by
\* appending sim[0] to allvecs, and stops when it finds the objective
\* converged or a cap is reached.  An iteration calls the objective once
\* or twice.
Proposals ==
    {<<KBig, 1, 0, 0, 1, 0, 1, KBig>>,
     <<1, 1, KBig, 0, 1, 0, 0, KBig>>,
     <<KBig, 1, KBig, KBig, 1, 0, 0, 0>>}

FitInit ==
    /\ pc = "fit"
    /\ database \in Databases
    /\ \E readout \in Readouts :
          fit_args = [prior_shape |-> "vonMisesPrior", prior_mode |-> SpaceSize,
                      readout |-> readout]
    /\ copy_on_write \in BOOLEAN
    /\ fit = Unset
    /\ fit_out = Unset
    /\ LocIdle /\ ChooseIdle /\ LookupIdle /\ LoglIdle /\ VmIdle

Aborted(state) == IF state.err # None THEN FitRaised(state.err) ELSE Unset

\* get_params, get_data, and fmin up to the evaluation of its initial simplex
FitStart ==
    /\ pc = "fit"
    /\ fit' = FitStarted(
                 get_params(database, fit_args.prior_shape, fit_args.prior_mode,
                            fit_args.readout),
                 get_data(database, copy_on_write),
                 unpack(init_params))
    /\ database' = WithEstimate(get_data(database, copy_on_write).database,
                                fit'.estimate, copy_on_write)
    /\ fit_out' = Aborted(fit')
    /\ pc' = IF fit'.err # None THEN "raised" ELSE "fmin"
    /\ UNCHANGED <<fit_args, copy_on_write, locVars, chooseVars, lookupVars, loglVars, vmVars>>

\* an iteration of fmin that calls the objective once
FminIterateOne ==
    /\ pc = "fmin"
    /\ CapsAllow(fit)
    /\ \E x \in Proposals : fit' = IterationEnd(Evaluate(fit, x))
    /\ database' = WithEstimate(database, fit'.estimate, copy_on_write)
    /\ fit_out' = Aborted(fit')
    /\ pc' = IF fit'.err # None THEN "raised" ELSE "fmin"
    /\ UNCHANGED <<fit_args, copy_on_write, locVars, chooseVars, lookupVars, loglVars, vmVars>>

\* an iteration of fmin that calls the objective twice
FminIterateTwo ==
    /\ pc = "fmin"
    /\ CapsAllow(fit)
    /\ \E x, y \in Proposals : fit' = IterationEnd(Evaluate(Evaluate(fit, x), y))
    /\ database' = WithEstimate(database, fit'.estimate, copy_on_write)
    /\ fit_out' = Aborted(fit')
    /\ pc' = IF fit'.err # None THEN "raised" ELSE "fmin"
    /\ UNCHANGED <<fit_args, copy_on_write, locVars, chooseVars, lookupVars, loglVars, vmVars>>

\* fmin finds the objective converged, and fit_maxlogl returns
FminConverged ==
    /\ pc = "fmin"
    /\ CapsAllow(fit)
    /\ pc' = "returned"
    /\ fit_out' = FitResult(fmin_output(fit))
    /\ UNCHANGED <<database, fit_args, copy_on_write, fit, locVars, chooseVars, lookupVars, loglVars, vmVars>>

\* a cap is reached, and fit_maxlogl returns
FminCapReached ==
    /\ pc = "fmin"
    /\ ~CapsAllow(fit)
    /\ pc' = "returned"
    /\ fit_out' = FitResult(fmin_output(fit))
    /\ UNCHANGED <<database, fit_args, copy_on_write, fit, locVars, chooseVars, lookupVars, loglVars, vmVars>>

Next ==
    \/ FitStart
    \/ FminIterateOne
    \/ FminIterateTwo
    \/ FminConverged
    \/ FminCapReached

Spec == FitInit /\ [][Next]_vars

\* C2: no call changes the caller's dataset.
C2_CallerDatasetNeverMutated == [][database' = database]_vars

FitReturned == pc = "returned"

\* C3: 'best_fit_params' is the best point the search met, and 'neglogl'
\* is the sequence of the objective values of the iterations.
C3_ResultHoldsObjectiveValues ==
    FitReturned =>
        /\ fit_out.best_fit_params = fit.sim0
        /\ Len(fit_out.neglogl) = Len(fit.fvals)
        /\ \A i \in 1..Len(fit_out.neglogl) :
              /\ fit_out.neglogl[i].type = "float"
              /\ fit_out.neglogl[i] = fit.fvals[i]

\* fmin is a sequential loop, which goes on as long as it has a next step:
\* it is left when its condition fails or the search has converged.  The
\* steps that call the objective get no fairness: that a call of the
\* objective returns is not the search's doing.
SpecFair == Spec /\ WF_pc(FminConverged \/ FminCapReached)

FitHasRaised == pc = "raised"

\* fmin has been entered: the objective has been called
FminEntered == pc \in {"fmin", "raised", "returned"}

\* C12: when a call of get_logl raises, the objective is not called again,
\* fit_maxlogl raises that exception and returns no dictionary, and nothing
\* more happens in the call.
C12_RaisingEvaluationAbortsTheFit ==
    /\ [](FminEntered =>
            /\ \A i \in 1..(Len(fit.calls) - 1) : fit.calls[i] = None
            /\ fit.calls[Len(fit.calls)] # None =>
                  /\ FitHasRaised
                  /\ fit_out.err = fit.calls[Len(fit.calls)]
                  /\ fit_out.neglogl = None
                  /\ fit_out.best_fit_params = None)
    /\ [][~FitHasRaised]_vars

\* the third call of the objective raised, after two that returned
C12_Witness ==
    /\ FitHasRaised
    /\ Len(fit.calls) = 3
    /\ fit.calls[3] # None

C17_IndexMapAndInitParamsFixed ==
    FminEntered =>
        /\ fit.params.model.init_params = init_params
        /\ \A i \in 1..Len(fit.maps) : fit.maps[i] = locate_fit_params(init_params)

\* three calls of get_logl have returned
C17_Witness ==
    /\ FminEntered
    /\ Len(fit.maps) = 3
    /\ fit.err = None
    /\ fit.maps[3] = <<[key |-> "k_llh", val |-> <<0, 1>>],
                       [key |-> "k_prior", val |-> <<2, 3>>],
                       [key |-> "k_card", val |-> <<4>>],
                       [key |-> "prior_tail", val |-> <<5>>],
                       [key |-> "p_rand", val |-> <<6>>],
                       [key |-> "k_m", val |-> <<7>>]>>

====
